---------------------------- MODULE Spec2Model ----------------------------
(***************************************************************************)
(* Model of the virtual-butler request pipeline:                           *)
(*   chat service   (src/unnamed/part_000): routeDepartment,               *)
(*                  handleChatRequest and its detached publish goroutine   *)
(*   work-order svc (src/unnamed/part_002): workOrderConsumer, statusStore,*)
(*                  handleStatus                                           *)
(* Strings are sequences of one-character strings, so that formatting      *)
(* (fmt.Sprintf) and parsing (json.Unmarshal) are computed character by    *)
(* character.                                                              *)
(***************************************************************************)
EXTENDS Integers, Sequences, FiniteSets, TLC

VARIABLES
    now,          \* the wall clock, as read by time.Now()
    calls,        \* handleChatRequest calls so far: input, response, publish outcome
    queue,        \* the Service Bus queue: messages waiting to be received
    pc,           \* position of the workOrderConsumer loop
    msg,          \* the message the consumer holds (received, not yet completed)
    wo,           \* the WorkOrder built in this iteration (and its payload.RequestID)
    coll,         \* the MongoDB collection: documents inserted so far
    statusStore,  \* map[string]*WorkOrder of part_002
    log,          \* lines written by log.Printf, in order
    acked,        \* the messages passed to receiver.CompleteMessage, in order
    reply,        \* the last response written by handleStatus
    rejected,     \* the request bodies handleChatRequest answered with 400
    ctxDone,      \* whether the ctx passed to workOrderConsumer is cancelled
    statusLock,   \* the sync.RWMutex statusLock: its writer and its readers
    handlers,     \* the handleStatus calls in flight, one per serving goroutine
    cText,        \* classifier harness: the text under test
    cCalls        \* classifier harness: results of the calls made on cText

vars == <<now, calls, queue, pc, msg, wo, coll, statusStore, log, acked, reply,
          rejected, ctxDone, statusLock, handlers, cText, cCalls>>
pipeVars == <<now, calls, queue, pc, msg, wo, coll, statusStore, log, acked, reply,
              rejected, ctxDone, statusLock, handlers>>
classifyVars == <<cText, cCalls>>

\* ---------------------------------------------------------------- bounds
MaxTime == 2
MaxWords == 2
MaxClassifyCalls == 2
MaxHandlers == 2
MaxDeliveries == 2

\* ---------------------------------------------------------------- strings
Upper == <<"A", "B", "C", "D", "E", "F", "G", "H", "I", "J", "K", "L", "M",
           "N", "O", "P", "Q", "R", "S", "T", "U", "V", "W", "X", "Y", "Z">>
Lower == <<"a", "b", "c", "d", "e", "f", "g", "h", "i", "j", "k", "l", "m",
           "n", "o", "p", "q", "r", "s", "t", "u", "v", "w", "x", "y", "z">>
Digits == <<"0", "1", "2", "3", "4", "5", "6", "7", "8", "9">>

\* The lower-case letter of each upper-case letter
LowerOf == [c \in {Upper[i] : i \in DOMAIN Upper} |->
               Lower[CHOOSE i \in DOMAIN Upper : Upper[i] = c]] @@ <<>>

\* unicode.ToLower on one character
ToLowerChar(c) == IF c \in DOMAIN LowerOf THEN LowerOf[c] ELSE c

\* strings.ToLower
ToLower(s) == [i \in 1..Len(s) |-> ToLowerChar(s[i])]

\* strings.Contains
Contains(s, k) ==
    \E i \in 0..(Len(s) - Len(k)) : \A j \in 1..Len(k) : s[i + j] = k[j]

\* fmt's %d of a non-negative integer
RECURSIVE Itoa(_)
Itoa(n) ==
    IF n < 10 THEN <<Digits[n + 1]>>
    ELSE Itoa(n \div 10) \o <<Digits[(n % 10) + 1]>>

\* ---------------------------------------------------------------- classifier
towel == <<"t", "o", "w", "e", "l">>
clean == <<"c", "l", "e", "a", "n">>
food == <<"f", "o", "o", "d">>
order == <<"o", "r", "d", "e", "r">>
checkout == <<"c", "h", "e", "c", "k", "o", "u", "t">>
wifi == <<"w", "i", "f", "i">>

Housekeeping == <<"H", "o", "u", "s", "e", "k", "e", "e", "p", "i", "n", "g">>
RoomService == <<"R", "o", "o", "m", " ", "S", "e", "r", "v", "i", "c", "e">>
FrontDesk == <<"F", "r", "o", "n", "t", " ", "D", "e", "s", "k">>
IT == <<"I", "T">>
General == <<"G", "e", "n", "e", "r", "a", "l">>

Departments == {Housekeeping, RoomService, FrontDesk, IT, General}

keywordDept ==
    (towel :> Housekeeping) @@ (clean :> Housekeeping) @@
    (food :> RoomService) @@ (order :> RoomService) @@
    (checkout :> FrontDesk) @@ (wifi :> IT)

Keywords == DOMAIN keywordDept

\* The orders in which the loop  for k, dept := range keywordDept  can visit the map:
\* Go leaves the iteration order of a map unspecified and varies it from one
\* loop to the next, so every permutation of the keys.
RECURSIVE rangeOrders(_)
rangeOrders(S) ==
    IF S = {} THEN {<<>>}
    ELSE UNION {{<<k>> \o p : p \in rangeOrders(S \ {k})} : k \in S}

MapOrders == {o : o \in rangeOrders(Keywords)}

RECURSIVE rangeKeywordDept(_, _, _)
rangeKeywordDept(o, lower, i) ==
    IF i > Len(o) THEN General
    ELSE IF Contains(lower, o[i]) THEN keywordDept[o[i]]
    ELSE rangeKeywordDept(o, lower, i + 1)

\* routeDepartment(text), for the order o in which this call's range loop
\* visits the map
routeDepartment(o, text) == rangeKeywordDept(o, ToLower(text), 1)

\* ---------------------------------------------------------------- request IDs
\* rand.Intn(RandN) draws from 0..RandN-1
RandN == 10000

\* fmt.Sprintf("%d-%d", time.Now().UnixNano(), rand.Intn(10000))
newRequestID(nano, rnd) == Itoa(nano) \o <<"-">> \o Itoa(rnd)

\* ---------------------------------------------------------------- envelope
\* fmt.Sprintf({"requestID":"%s","guestID":"%s","department":"%s","request":"%s"}, ...)
\* %s copies its argument byte for byte: nothing is escaped.
envelopeBody(requestID, guestID, department, text) ==
    <<"{", "\"", "r", "e", "q", "u", "e", "s", "t", "I", "D", "\"", ":", "\"">>
    \o requestID \o
    <<"\"", ",", "\"", "g", "u", "e", "s", "t", "I", "D", "\"", ":", "\"">>
    \o guestID \o
    <<"\"", ",", "\"", "d", "e", "p", "a", "r", "t", "m", "e", "n", "t", "\"", ":", "\"">>
    \o department \o
    <<"\"", ",", "\"", "r", "e", "q", "u", "e", "s", "t", "\"", ":", "\"">>
    \o text \o
    <<"\"", "}">>

\* ---------------------------------------------------------------- encoding/json
\* The characters U+0020..U+007E, in code order (the grave accent as a token).
Ascii ==
    <<" ", "!", "\"", "#", "$", "%", "&", "'", "(", ")", "*", "+", ",", "-", ".", "/",
      "0", "1", "2", "3", "4", "5", "6", "7", "8", "9", ":", ";", "<", "=", ">", "?",
      "@", "A", "B", "C", "D", "E", "F", "G", "H", "I", "J", "K", "L", "M", "N", "O",
      "P", "Q", "R", "S", "T", "U", "V", "W", "X", "Y", "Z", "[", "\\", "]", "^", "_",
      "U+0060", "a", "b", "c", "d", "e", "f", "g", "h", "i", "j", "k", "l", "m", "n", "o",
      "p", "q", "r", "s", "t", "u", "v", "w", "x", "y", "z", "{", "|", "}", "~">>

HexDigits == <<"0", "1", "2", "3", "4", "5", "6", "7", "8", "9",
               "a", "b", "c", "d", "e", "f">>

IsDigit(c) == \E i \in 1..Len(Digits) : Digits[i] = c
IsHex(c) == \E i \in 1..Len(HexDigits) : HexDigits[i] = ToLowerChar(c)
HexVal(c) == (CHOOSE i \in 1..Len(HexDigits) : HexDigits[i] = ToLowerChar(c)) - 1

\* One character per code point: the printable ASCII characters are themselves,
\* a control character is a named token, anything else is the token U+xxxx.
\* (An unpaired surrogate decodes to U+FFFD, as in Go.)
CharOfCode(n) ==
    IF n >= 32 /\ n <= 126 THEN Ascii[n - 31]
    ELSE IF n = 8 THEN "BS"
    ELSE IF n = 9 THEN "HT"
    ELSE IF n = 10 THEN "LF"
    ELSE IF n = 12 THEN "FF"
    ELSE IF n = 13 THEN "CR"
    ELSE IF n >= 55296 /\ n <= 57343 THEN "U+fffd"
    ELSE "U+" \o HexDigits[(n \div 4096) + 1] \o HexDigits[((n \div 256) % 16) + 1]
              \o HexDigits[((n \div 16) % 16) + 1] \o HexDigits[(n % 16) + 1]

ControlChars ==
    {"U+0000", "U+0001", "U+0002", "U+0003", "U+0004", "U+0005", "U+0006", "U+0007",
     "BS", "HT", "LF", "U+000b", "FF", "CR", "U+000e", "U+000f",
     "U+0010", "U+0011", "U+0012", "U+0013", "U+0014", "U+0015", "U+0016", "U+0017",
     "U+0018", "U+0019", "U+001a", "U+001b", "U+001c", "U+001d", "U+001e", "U+001f"}

\* scanner.go isSpace
IsSpace(c) == c \in {" ", "HT", "LF", "CR"}

\* What a scan returns: whether a value was read, the position after it, its
\* kind, its text when it is a string, its members when it is an object.
ScanError == [ok |-> FALSE, next |-> 0, kind |-> "invalid", str |-> <<>>, members |-> <<>>]
Scanned(n, k, s, m) == [ok |-> TRUE, next |-> n, kind |-> k, str |-> s, members |-> m]

RECURSIVE skipSpace(_, _)
skipSpace(b, i) == IF i <= Len(b) /\ IsSpace(b[i]) THEN skipSpace(b, i + 1) ELSE i

RECURSIVE skipDigits(_, _)
skipDigits(b, i) == IF i <= Len(b) /\ IsDigit(b[i]) THEN skipDigits(b, i + 1) ELSE i

\* decode.go getu4 + unquote: the character a backslash escape stands for,
\* "" when the escape is not one of JSON's
Unescaped(c) ==
    CASE c = "\"" -> "\""
      [] c = "\\" -> "\\"
      [] c = "/" -> "/"
      [] c = "b" -> "BS"
      [] c = "f" -> "FF"
      [] c = "n" -> "LF"
      [] c = "r" -> "CR"
      [] c = "t" -> "HT"
      [] OTHER -> ""

\* A string literal whose opening quote is at b[i - 1]; acc is its text so far.
RECURSIVE scanString(_, _, _)
scanString(b, i, acc) ==
    IF i > Len(b) THEN ScanError
    ELSE IF b[i] = "\"" THEN Scanned(i + 1, "string", acc, <<>>)
    ELSE IF b[i] = "\\" THEN
        IF i + 1 > Len(b) THEN ScanError
        ELSE IF b[i + 1] = "u" THEN
            IF i + 5 <= Len(b) /\ \A d \in 2..5 : IsHex(b[i + d])
            THEN scanString(b, i + 6,
                     Append(acc, CharOfCode(4096 * HexVal(b[i + 2]) + 256 * HexVal(b[i + 3])
                                            + 16 * HexVal(b[i + 4]) + HexVal(b[i + 5]))))
            ELSE ScanError
        ELSE IF Unescaped(b[i + 1]) # "" THEN
            scanString(b, i + 2, Append(acc, Unescaped(b[i + 1])))
        ELSE ScanError
    ELSE IF b[i] \in ControlChars THEN ScanError
    ELSE scanString(b, i + 1, Append(acc, b[i]))

\* A number starting at b[i]: -? (0 | [1-9][0-9]*) (. [0-9]+)? ([eE] [+-]? [0-9]+)?
scanNumber(b, i) ==
    LET s == IF b[i] = "-" THEN i + 1 ELSE i
    IN  IF s > Len(b) \/ ~IsDigit(b[s]) THEN ScanError
        ELSE LET intEnd == IF b[s] = "0" THEN s + 1 ELSE skipDigits(b, s)
                 hasFrac == intEnd <= Len(b) /\ b[intEnd] = "."
                 fracEnd == IF hasFrac THEN skipDigits(b, intEnd + 1) ELSE intEnd
                 hasExp == fracEnd <= Len(b) /\ b[fracEnd] \in {"e", "E"}
                 expDigits == IF hasExp /\ fracEnd + 1 <= Len(b) /\ b[fracEnd + 1] \in {"+", "-"}
                              THEN fracEnd + 2 ELSE fracEnd + 1
                 expEnd == IF hasExp THEN skipDigits(b, expDigits) ELSE fracEnd
             IN  IF hasFrac /\ fracEnd = intEnd + 1 THEN ScanError
                 ELSE IF hasExp /\ expEnd = expDigits THEN ScanError
                 ELSE Scanned(expEnd, "number", <<>>, <<>>)

\* The literal lit (true, false, null) at b[i]
scanLiteral(b, i, lit, kind) ==
    IF i + Len(lit) - 1 <= Len(b) /\ \A j \in 1..Len(lit) : b[i + j - 1] = lit[j]
    THEN Scanned(i + Len(lit), kind, <<>>, <<>>)
    ELSE ScanError

RECURSIVE scanValue(_, _)
RECURSIVE scanMembers(_, _, _)
RECURSIVE scanElements(_, _)

\* The members of an object, the next key expected at b[i]; acc the members so far.
scanMembers(b, i, acc) ==
    LET j == skipSpace(b, i)
    IN  IF j > Len(b) \/ b[j] # "\"" THEN ScanError
        ELSE LET key == scanString(b, j + 1, <<>>)
                 c == skipSpace(b, key.next)
             IN  IF ~key.ok \/ c > Len(b) \/ b[c] # ":" THEN ScanError
                 ELSE LET v == scanValue(b, c + 1)
                          e == skipSpace(b, v.next)
                          all == Append(acc, [key |-> key.str, kind |-> v.kind, str |-> v.str])
                      IN  IF ~v.ok \/ e > Len(b) THEN ScanError
                          ELSE IF b[e] = "," THEN scanMembers(b, e + 1, all)
                          ELSE IF b[e] = "}" THEN Scanned(e + 1, "object", <<>>, all)
                          ELSE ScanError

\* The elements of an array, the next element expected at b[i].
scanElements(b, i) ==
    LET v == scanValue(b, i)
        e == skipSpace(b, v.next)
    IN  IF ~v.ok \/ e > Len(b) THEN ScanError
        ELSE IF b[e] = "," THEN scanElements(b, e + 1)
        ELSE IF b[e] = "]" THEN Scanned(e + 1, "array", <<>>, <<>>)
        ELSE ScanError

\* scanner.go: one JSON value starting at or after b[i]
scanValue(b, i) ==
    LET j == skipSpace(b, i)
    IN  IF j > Len(b) THEN ScanError
        ELSE IF b[j] = "\"" THEN scanString(b, j + 1, <<>>)
        ELSE IF b[j] = "{" THEN
            LET k == skipSpace(b, j + 1)
            IN  IF k <= Len(b) /\ b[k] = "}" THEN Scanned(k + 1, "object", <<>>, <<>>)
                ELSE scanMembers(b, j + 1, <<>>)
        ELSE IF b[j] = "[" THEN
            LET k == skipSpace(b, j + 1)
            IN  IF k <= Len(b) /\ b[k] = "]" THEN Scanned(k + 1, "array", <<>>, <<>>)
                ELSE scanElements(b, j + 1)
        ELSE IF b[j] = "t" THEN scanLiteral(b, j, <<"t", "r", "u", "e">>, "bool")
        ELSE IF b[j] = "f" THEN scanLiteral(b, j, <<"f", "a", "l", "s", "e">>, "bool")
        ELSE IF b[j] = "n" THEN scanLiteral(b, j, <<"n", "u", "l", "l">>, "null")
        ELSE IF b[j] = "-" \/ IsDigit(b[j]) THEN scanNumber(b, j)
        ELSE ScanError

\* json.Unmarshal's checkValid: one value, then only white space
checkValid(b, v) == IF v.ok /\ skipSpace(b, v.next) > Len(b) THEN v ELSE ScanError

ParseJSON(b) == checkValid(b, scanValue(b, 1))

\* The payload struct of workOrderConsumer and its json tags
PayloadFields ==
    [RequestID |-> <<"r", "e", "q", "u", "e", "s", "t", "I", "D">>,
     GuestID |-> <<"g", "u", "e", "s", "t", "I", "D">>,
     Department |-> <<"d", "e", "p", "a", "r", "t", "m", "e", "n", "t">>,
     Request |-> <<"r", "e", "q", "u", "e", "s", "t">>]

ZeroPayload == [RequestID |-> <<>>, GuestID |-> <<>>, Department |-> <<>>, Request |-> <<>>]

\* The tags, case folded
FoldedFields == [f \in DOMAIN PayloadFields |-> ToLower(PayloadFields[f])] @@ <<>>

\* decode.go object(): a key names the field whose tag it equals, case folded
FieldOf(key) ==
    LET folded == ToLower(key)
    IN  {f \in DOMAIN FoldedFields : FoldedFields[f] = folded}

\* decode.go object(): the members are stored in order, so a later member
\* overwrites an earlier one of the same field; a null leaves the field alone;
\* members that name no field are skipped.
RECURSIVE storeMembers(_, _, _)
storeMembers(members, i, p) ==
    IF i > Len(members) THEN p
    ELSE LET m == members[i]
             fs == FieldOf(m.key)
         IN  storeMembers(members, i + 1,
                 IF m.kind = "string" /\ fs # {}
                 THEN [f \in DOMAIN p |-> IF f \in fs THEN m.str ELSE p[f]]
                 ELSE p)

\* json.Unmarshal(msg.Body, &payload): err is non-nil for a body that is not
\* valid JSON, for a top-level value that is neither an object nor null, and
\* for a member that names a field but is not a string or null
\* (UnmarshalTypeError; all four fields are strings).
typeError(v) ==
    \/ v.kind \notin {"object", "null"}
    \/ \E i \in DOMAIN v.members :
           /\ FieldOf(v.members[i].key) # {}
           /\ v.members[i].kind \notin {"string", "null"}

\* decode.go value(): the outcome of Unmarshal for the scanned value v
unmarshalValue(v) ==
    IF ~v.ok \/ typeError(v) THEN [err |-> TRUE, payload |-> ZeroPayload]
    ELSE [err |-> FALSE, payload |-> storeMembers(v.members, 1, ZeroPayload)]

Unmarshal(b) == unmarshalValue(ParseJSON(b))

\* ---------------------------------------------------------------- DecodeJSONBody
\* The ChatRequest struct and its json tags
ChatRequestFields ==
    [GuestID |-> <<"g", "u", "e", "s", "t", "I", "D">>,
     Text |-> <<"t", "e", "x", "t">>,
     VoiceTranscript |-> <<"v", "o", "i", "c", "e", "T", "r", "a", "n", "s", "c", "r", "i", "p", "t">>]

ZeroChatRequest == [GuestID |-> <<>>, Text |-> <<>>, VoiceTranscript |-> <<>>]

FoldedChatFields == [f \in DOMAIN ChatRequestFields |-> ToLower(ChatRequestFields[f])] @@ <<>>

\* decode.go object(): the field of ChatRequest a key names, case folded
chatFieldOf(key) ==
    {f \in DOMAIN FoldedChatFields : FoldedChatFields[f] = ToLower(key)}

RECURSIVE storeChatMembers(_, _, _)
storeChatMembers(members, i, p) ==
    IF i > Len(members) THEN p
    ELSE storeChatMembers(members, i + 1,
             IF members[i].kind = "string"
             THEN [f \in DOMAIN p |-> IF f \in chatFieldOf(members[i].key)
                                       THEN members[i].str ELSE p[f]]
             ELSE p)

\* stream.go Decoder.readValue: Decode reads the first JSON value of the body
\* and stops there. An object or array ends at its closing bracket, whatever
\* follows; a string, number or literal must be followed by white space or by
\* the end of the body.
endOfValue(b, v) ==
    IF v.ok /\ (v.kind \in {"object", "array"} \/ v.next > Len(b) \/ IsSpace(b[v.next]))
    THEN v ELSE ScanError

readValue(b) == endOfValue(b, scanValue(b, 1))

\* decoder.Decode(dst) after decoder.DisallowUnknownFields(): the error for a
\* key that names no field of ChatRequest, or for a member that names a field
\* but is not a string or null, or for a value that is neither an object nor null
decodeError(v) ==
    \/ ~v.ok
    \/ v.kind \notin {"object", "null"}
    \/ \E i \in DOMAIN v.members :
           \/ chatFieldOf(v.members[i].key) = {}
           \/ v.members[i].kind \notin {"string", "null"}

decodeValue(v) ==
    IF decodeError(v) THEN [ok |-> FALSE, req |-> ZeroChatRequest]
    ELSE [ok |-> TRUE, req |-> storeChatMembers(v.members, 1, ZeroChatRequest)]

\* common.DecodeJSONBody(w, r, &req): whether it returned true, and req
DecodeJSONBody(body) == decodeValue(readValue(body))

\* ---------------------------------------------------------------- inputs
\* The guests; each sends at most one request.
GuestG1 == <<"g", "1">>
GuestG2 == <<"g", "2">>
GuestIDs == {GuestG1, GuestG2}

\* The texts and voice transcripts of the request bodies
TowelsText == <<"I", " ", "n", "e", "e", "d", " ", "c", "l", "e", "a", "n", " ",
                "t", "o", "w", "e", "l", "s">>
BlahText == <<"b", "l", "a", "h", " ", "b", "l", "a", "h">>
\* a"b
QuoteText == <<"a", "\"", "b">>
\* x","department":"Spa
FragmentText == <<"x", "\"", ",", "\"", "d", "e", "p", "a", "r", "t", "m", "e", "n", "t",
                  "\"", ":", "\"", "S", "p", "a">>
WifiVoice == <<"w", "i", "f", "i", " ", "i", "s", " ", "d", "o", "w", "n">>

ChatRequest(g, t, v) == [GuestID |-> g, Text |-> t, VoiceTranscript |-> v]

\* The request bodies DecodeJSONBody accepts that the guests send
ChatRequests ==
    {ChatRequest(g, TowelsText, <<>>) : g \in GuestIDs}
    \cup {ChatRequest(g, BlahText, WifiVoice) : g \in GuestIDs}
    \cup {ChatRequest(g, QuoteText, <<>>) : g \in GuestIDs}
    \cup {ChatRequest(g, FragmentText, <<>>) : g \in GuestIDs}

\* The values of rand.Intn(10000) the model draws: the ends of its range
RandomDraws == {0, RandN - 1}

\* A request ID no response ever carried
DoesNotExist == <<"d", "o", "e", "s", "-", "n", "o", "t", "-", "e", "x", "i", "s", "t">>

\* The departments routeDepartment can return for the classification input of
\* each request, over the orders its range loop can take (tabulated once: @@
\* yields the table as an explicit function).
routeOutcomes ==
    [req \in ChatRequests |->
        {routeDepartment(o, req.Text \o <<" ">> \o req.VoiceTranscript) : o \in MapOrders}]
    @@ [req \in {} |-> {}]

\* The bodies POSTed to /api/v1/chat/request
\* {"guestID":"g1","text":"wifi"}
BodyText ==
    <<"{", "\"", "g", "u", "e", "s", "t", "I", "D", "\"", ":", "\"", "g", "1", "\"", ",", "\"", "t", "e", "x", "t", "\"", ":", "\"", "w", "i", "f", "i", "\"", "}">>
\* {"guestID":"g2","text":"blah","voiceTranscript":"towel"}
BodyVoice ==
    <<"{", "\"", "g", "u", "e", "s", "t", "I", "D", "\"", ":", "\"", "g", "2", "\"", ",", "\"", "t", "e", "x", "t", "\"", ":", "\"", "b", "l", "a", "h", "\"", ",", "\"", "v", "o", "i", "c", "e", "T", "r", "a", "n", "s", "c", "r", "i", "p", "t", "\"", ":", "\"", "t", "o", "w", "e", "l", "\"", "}">>
\* {"guestID":"g1","text":"wifi","room":"7"}
BodyUnknownField ==
    <<"{", "\"", "g", "u", "e", "s", "t", "I", "D", "\"", ":", "\"", "g", "1", "\"", ",", "\"", "t", "e", "x", "t", "\"", ":", "\"", "w", "i", "f", "i", "\"", ",", "\"", "r", "o", "o", "m", "\"", ":", "\"", "7", "\"", "}">>
\* {"guestID":"g1","text":
BodyTruncated ==
    <<"{", "\"", "g", "u", "e", "s", "t", "I", "D", "\"", ":", "\"", "g", "1", "\"", ",", "\"", "t", "e", "x", "t", "\"", ":">>
\* {"guestID":"g2","text":"wifi"}]
BodyTrailing ==
    <<"{", "\"", "g", "u", "e", "s", "t", "I", "D", "\"", ":", "\"", "g", "2", "\"", ",", "\"", "t", "e", "x", "t", "\"", ":", "\"", "w", "i", "f", "i", "\"", "}", "]">>
\* {"guestID":7,"text":"wifi"}
BodyWrongType ==
    <<"{", "\"", "g", "u", "e", "s", "t", "I", "D", "\"", ":", "7", ",", "\"", "t", "e", "x", "t", "\"", ":", "\"", "w", "i", "f", "i", "\"", "}">>
\* wifi please
BodyNotJSON == <<"w", "i", "f", "i", " ", "p", "l", "e", "a", "s", "e">>

PostBodies ==
    {BodyText, BodyVoice, BodyUnknownField, BodyTruncated, BodyTrailing, BodyWrongType,
     BodyNotJSON}

\* DecodeJSONBody on each of the bodies (tabulated once)
decodedBodies == [b \in PostBodies |-> DecodeJSONBody(b)] @@ <<>>

\* The departments routeDepartment can return for each body that decodes
postOutcomes ==
    [b \in {c \in PostBodies : decodedBodies[c].ok} |->
        {routeDepartment(o, decodedBodies[b].req.Text \o <<" ">>
                            \o decodedBodies[b].req.VoiceTranscript) : o \in MapOrders}]
    @@ <<>>

\* ---------------------------------------------------------------- state
\* The message the consumer holds; lock is whether it still holds the
\* message's peek lock (ReceiveMessage of a queue receiver locks the message
\* until it is settled or the lock expires).
NoMsg == [Body |-> <<>>, from |-> 0, lock |-> FALSE]
Locked(m) == [Body |-> m.Body, from |-> m.from, lock |-> TRUE]
NoWo == [RequestID |-> <<>>, GuestID |-> <<>>, Department |-> <<>>, Request |-> <<>>,
         Status |-> "", Created |-> 0, Updated |-> 0]

\* The document coll.InsertOne stores for wo, and the WorkOrder that
\* statusStore points to (payload.RequestID is no field of WorkOrder)
Document(w) == [f \in DOMAIN w \ {"RequestID"} |-> w[f]]

NoReply == [RequestID |-> <<>>, Code |-> 0, WorkOrder |-> Document(NoWo)]

\* statusLock with no holder
Unlocked == [writer |-> FALSE, readers |-> 0]

\* The goroutines net/http runs handleStatus on, and one that serves no request
Handlers == 1..MaxHandlers
Idle == [pc |-> "idle", requestID |-> <<>>, ok |-> FALSE, resp |-> Document(NoWo)]

Init ==
    /\ now = 1
    /\ calls = <<>>
    /\ queue = <<>>
    /\ pc = "receive"
    /\ msg = NoMsg
    /\ wo = NoWo
    /\ coll = <<>>
    /\ statusStore = [r \in {} |-> Document(NoWo)]
    /\ log = <<>>
    /\ acked = <<>>
    /\ reply = NoReply
    /\ rejected = {}
    /\ ctxDone = FALSE
    /\ statusLock = Unlocked
    /\ handlers = [h \in Handlers |-> Idle]
    /\ cText = <<>>
    /\ cCalls = <<>>

\* ---------------------------------------------------------------- chat service
\* Mutant of Message: the envelope is stamped with a request ID minted anew
\* instead of the one put in the response.
MessageReminted(i, req, resp) ==
    [Body |-> envelopeBody(newRequestID(now + 1, 0), req.GuestID, resp.Department, req.Text),
     from |-> i]

\* The message handleChatRequest builds; from is the index of the call, kept
\* with the message to tell the messages apart.
Message(i, req, resp) ==
    [Body |-> envelopeBody(resp.RequestID, req.GuestID, resp.Department, req.Text),
     from |-> i]

\* handleChatRequest for a body DecodeJSONBody accepts. The clock reads t, rand
\* returns rnd, the range loop of routeDepartment yields department. The
\* goroutine that sends msg is started and the response is written.
handleChatRequest(req, t, rnd, department) ==
    LET requestID == newRequestID(t, rnd)
        resp == [RequestID |-> requestID, Status |-> "received", Department |-> department]
    IN  /\ now' = t
        /\ calls' = Append(calls, [req |-> req, resp |-> resp, send |-> "started"])
        /\ UNCHANGED <<queue, pc, msg, wo, coll, statusStore, log, acked, reply>>
        /\ UNCHANGED <<rejected, ctxDone, statusLock, handlers>>
        /\ UNCHANGED classifyVars

Submit ==
    \E req \in ChatRequests, t \in now..MaxTime, rnd \in RandomDraws :
        \E department \in routeOutcomes[req] :
            /\ \A i \in DOMAIN calls : calls[i].req.GuestID # req.GuestID
            /\ handleChatRequest(req, t, rnd, department)

\* handleChatRequest on the raw body of a POST: DecodeJSONBody answers 400 and
\* the handler returns, or the body decodes and the handler goes on as above.
serveChatRequest(body) ==
    IF ~decodedBodies[body].ok
    THEN /\ rejected' = rejected \cup {body}
         /\ UNCHANGED <<now, calls, queue, pc, msg, wo, coll, statusStore, log, acked, reply>>
         /\ UNCHANGED <<ctxDone, statusLock, handlers>>
         /\ UNCHANGED classifyVars
    ELSE \E t \in now..MaxTime, rnd \in RandomDraws, department \in postOutcomes[body] :
             /\ \A i \in DOMAIN calls :
                    calls[i].req.GuestID # decodedBodies[body].req.GuestID
             /\ handleChatRequest(decodedBodies[body].req, t, rnd, department)

Post == \E body \in PostBodies : serveChatRequest(body)

\* The goroutine of call i: sbSender.SendMessage returns nil, the message is queued.
SendMessageOK(i) ==
    /\ calls[i].send = "started"
    /\ calls' = [calls EXCEPT ![i].send = "sent"]
    /\ queue' = Append(queue, Message(i, calls[i].req, calls[i].resp))
    /\ UNCHANGED <<now, pc, msg, wo, coll, statusStore, log, acked, reply>>
    /\ UNCHANGED <<rejected, ctxDone, statusLock, handlers>>
    /\ UNCHANGED classifyVars

\* Mutant of SendMessageFails: the failed send also marks the response failed.
SendMessageFailsRetracts(i) ==
    /\ calls[i].send = "started"
    /\ calls' = [calls EXCEPT ![i].send = "failed", ![i].resp.Status = "failed"]
    /\ UNCHANGED <<now, queue, pc, msg, wo, coll, statusStore, log, acked, reply>>
    /\ UNCHANGED <<rejected, ctxDone, statusLock, handlers>>
    /\ UNCHANGED classifyVars

\* The goroutine of call i: sbSender.SendMessage returns an error, which is
\* logged; the goroutine ends.
SendMessageFails(i) ==
    /\ calls[i].send = "started"
    /\ calls' = [calls EXCEPT ![i].send = "failed"]
    /\ UNCHANGED <<now, queue, pc, msg, wo, coll, statusStore, log, acked, reply>>
    /\ UNCHANGED <<rejected, ctxDone, statusLock, handlers>>
    /\ UNCHANGED classifyVars

SendOK == \E i \in DOMAIN calls : SendMessageOK(i)
SendFails == \E i \in DOMAIN calls : SendMessageFails(i)

\* ---------------------------------------------------------------- work-order service
\* The WorkOrder built from a payload, time.Now() being read once for Created
\* (t1) and once more for Updated (t2)
WorkOrder(payload, t1, t2) ==
    [RequestID |-> payload.RequestID,
     GuestID |-> payload.GuestID,
     Department |-> payload.Department,
     Request |-> payload.Request,
     Status |-> "Pending",
     Created |-> t1, Updated |-> t2]

\* Mutant of ReceiveInvalid: the loop continues without completing the message,
\* which stays on the queue.
ReceiveInvalidNotCompleted ==
    /\ pc = "receive"
    /\ ~ctxDone
    /\ queue # <<>>
    /\ Unmarshal(Head(queue).Body).err
    /\ log' = Append(log, [line |-> "Invalid message body", from |-> Head(queue).from])
    /\ UNCHANGED <<now, calls, queue, pc, msg, wo, coll, statusStore, acked, reply>>
    /\ UNCHANGED <<rejected, ctxDone, statusLock, handlers>>
    /\ UNCHANGED classifyVars

\* receiver.ReceiveMessage returns the next message, whose body json.Unmarshal
\* rejects: the error is logged, the message completed, and the loop continues.
ReceiveInvalid ==
    /\ pc = "receive"
    /\ ~ctxDone
    /\ queue # <<>>
    /\ Unmarshal(Head(queue).Body).err
    /\ queue' = Tail(queue)
    /\ log' = Append(log, [line |-> "Invalid message body", from |-> Head(queue).from])
    /\ acked' = Append(acked, Head(queue).from)
    /\ UNCHANGED <<now, calls, pc, msg, wo, coll, statusStore, reply>>
    /\ UNCHANGED <<rejected, ctxDone, statusLock, handlers>>
    /\ UNCHANGED classifyVars

\* Mutant of Receive: the message is settled as soon as it is received
\* (receive-and-delete), before the insert is attempted.
ReceiveAndDelete ==
    /\ pc = "receive"
    /\ ~ctxDone
    /\ queue # <<>>
    /\ \E u \in {Unmarshal(Head(queue).Body)} :
           /\ ~u.err
           /\ \E t1 \in now..MaxTime : \E t2 \in t1..MaxTime :
                /\ wo' = WorkOrder(u.payload, t1, t2)
                /\ now' = t2
    /\ msg' = Locked(Head(queue))
    /\ queue' = Tail(queue)
    /\ acked' = Append(acked, Head(queue).from)
    /\ pc' = "insert"
    /\ UNCHANGED <<calls, coll, statusStore, log, reply>>
    /\ UNCHANGED <<rejected, ctxDone, statusLock, handlers>>
    /\ UNCHANGED classifyVars

\* receiver.ReceiveMessage returns the next message (peek-lock: the consumer
\* holds it until it is completed), json.Unmarshal accepts its body, and wo is
\* built from the payload.
Receive ==
    /\ pc = "receive"
    /\ ~ctxDone
    /\ queue # <<>>
    /\ \E u \in {Unmarshal(Head(queue).Body)} :
           /\ ~u.err
           /\ \E t1 \in now..MaxTime : \E t2 \in t1..MaxTime :
                /\ wo' = WorkOrder(u.payload, t1, t2)
                /\ now' = t2
    /\ msg' = Locked(Head(queue))
    /\ queue' = Tail(queue)
    /\ pc' = "insert"
    /\ UNCHANGED <<calls, coll, statusStore, log, acked, reply>>
    /\ UNCHANGED <<rejected, ctxDone, statusLock, handlers>>
    /\ UNCHANGED classifyVars

\* Mutant of InsertFails: the projection is written although the insert failed.
InsertFailsProjects ==
    /\ pc = "insert"
    /\ log' = Append(log, [line |-> "MongoDB insert error", from |-> msg.from])
    /\ statusStore' = [r \in DOMAIN statusStore \cup {wo.RequestID} |->
                          IF r = wo.RequestID THEN Document(wo) ELSE statusStore[r]]
    /\ pc' = "complete"
    /\ UNCHANGED <<now, calls, queue, msg, wo, coll, acked, reply>>
    /\ UNCHANGED <<rejected, ctxDone, statusLock, handlers>>
    /\ UNCHANGED classifyVars

\* coll.InsertOne returns an error, which is logged.
InsertFails ==
    /\ pc = "insert"
    /\ log' = Append(log, [line |-> "MongoDB insert error", from |-> msg.from])
    /\ pc' = "complete"
    /\ UNCHANGED <<now, calls, queue, msg, wo, coll, statusStore, acked, reply>>
    /\ UNCHANGED <<rejected, ctxDone, statusLock, handlers>>
    /\ UNCHANGED classifyVars

\* coll.InsertOne succeeds (ctx is not cancelled): the document is stored and
\* the insert logged.
InsertOK ==
    /\ pc = "insert"
    /\ ~ctxDone
    /\ coll' = Append(coll, Document(wo))
    /\ log' = Append(log, [line |-> "Work order created", from |-> msg.from])
    /\ pc' = "project"
    /\ UNCHANGED <<now, calls, queue, msg, wo, statusStore, acked, reply>>
    /\ UNCHANGED <<rejected, ctxDone, statusLock, handlers>>
    /\ UNCHANGED classifyVars

\* statusLock.Lock(); statusStore[payload.RequestID] = &wo; statusLock.Unlock()
Project ==
    /\ pc = "project"
    /\ statusStore' = [r \in DOMAIN statusStore \cup {wo.RequestID} |->
                          IF r = wo.RequestID THEN Document(wo) ELSE statusStore[r]]
    /\ pc' = "complete"
    /\ UNCHANGED <<now, calls, queue, msg, wo, coll, log, acked, reply>>
    /\ UNCHANGED <<rejected, ctxDone, statusLock, handlers>>
    /\ UNCHANGED classifyVars

\* Mutant of Complete: the entry of the request is evicted once its message
\* is settled.
CompleteEvicts ==
    /\ pc = "complete"
    /\ acked' = IF msg.lock /\ ~ctxDone THEN Append(acked, msg.from) ELSE acked
    /\ statusStore' = [r \in DOMAIN statusStore \ {wo.RequestID} |-> statusStore[r]]
    /\ msg' = NoMsg
    /\ wo' = NoWo
    /\ pc' = "receive"
    /\ UNCHANGED <<now, calls, queue, coll, log, reply>>
    /\ UNCHANGED <<rejected, ctxDone, statusLock, handlers>>
    /\ UNCHANGED classifyVars

\* receiver.CompleteMessage(ctx, msg, nil) at the end of the iteration, reached
\* after a failed insert as well as after a successful one. It settles the
\* message if the consumer still holds its lock and ctx is not cancelled;
\* otherwise it returns an error, which the code discards.
Complete ==
    /\ pc = "complete"
    /\ acked' = IF msg.lock /\ ~ctxDone THEN Append(acked, msg.from) ELSE acked
    /\ msg' = NoMsg
    /\ wo' = NoWo
    /\ pc' = "receive"
    /\ UNCHANGED <<now, calls, queue, coll, statusStore, log, reply>>
    /\ UNCHANGED <<rejected, ctxDone, statusLock, handlers>>
    /\ UNCHANGED classifyVars

\* Mutant of handleStatus: ok is not tested, so a miss encodes the nil pointer
\* in a 200 response.
handleStatusIgnoresMiss(requestID) ==
    IF requestID \in DOMAIN statusStore
    THEN [RequestID |-> requestID, Code |-> 200, WorkOrder |-> statusStore[requestID]]
    ELSE [RequestID |-> requestID, Code |-> 200, WorkOrder |-> Document(NoWo)]

\* The caller of workOrderConsumer cancels ctx to request the shutdown.
Cancel ==
    /\ ~ctxDone
    /\ ctxDone' = TRUE
    /\ UNCHANGED <<now, calls, queue, pc, msg, wo, coll, statusStore, log, acked, reply>>
    /\ UNCHANGED <<rejected, statusLock, handlers>>
    /\ UNCHANGED classifyVars

\* receiver.ReceiveMessage(ctx, nil) on a cancelled ctx returns the error of ctx.
ReceiveCancelled ==
    /\ pc = "receive"
    /\ ctxDone
    /\ pc' = "receiveError"
    /\ UNCHANGED <<now, calls, queue, msg, wo, coll, statusStore, log, acked, reply>>
    /\ UNCHANGED <<rejected, ctxDone, statusLock, handlers>>
    /\ UNCHANGED classifyVars

\* The line log.Printf writes for a receive error
ReceiveErrorLine == [line |-> "Service Bus receive error", from |-> 0]

\* if err != nil { log.Printf(...); continue }: the error is logged and the
\* loop goes back to ReceiveMessage (log keeps a run of equal lines as one).
Continue ==
    /\ pc = "receiveError"
    /\ log' = IF log # <<>> /\ log[Len(log)] = ReceiveErrorLine
              THEN log ELSE Append(log, ReceiveErrorLine)
    /\ pc' = "receive"
    /\ UNCHANGED <<now, calls, queue, msg, wo, coll, statusStore, acked, reply>>
    /\ UNCHANGED <<rejected, ctxDone, statusLock, handlers>>
    /\ UNCHANGED classifyVars

\* How often the message of call i has been delivered: every delivery writes
\* one log line, the one under way writes it at the insert.
Deliveries(i) ==
    Cardinality({k \in DOMAIN log : log[k].from = i})
    + (IF msg.from = i /\ pc = "insert" THEN 1 ELSE 0)

\* The peek lock of the held message expires before CompleteMessage is
\* reached: Service Bus makes the message available again and will deliver it
\* once more (up to its maximal delivery count), while the consumer goes on
\* with the copy it holds.
LockExpires ==
    /\ pc \in {"insert", "project", "complete"}
    /\ msg.lock
    /\ Deliveries(msg.from) < MaxDeliveries
    /\ msg' = [msg EXCEPT !.lock = FALSE]
    /\ queue' = <<[Body |-> msg.Body, from |-> msg.from]>> \o queue
    /\ UNCHANGED <<now, calls, pc, wo, coll, statusStore, log, acked, reply>>
    /\ UNCHANGED <<rejected, ctxDone, statusLock, handlers>>
    /\ UNCHANGED classifyVars

\* handleStatus: the request ID of GET /api/v1/workorder/status/{requestID}
\* and the response to it
handleStatus(requestID) ==
    IF requestID \in DOMAIN statusStore
    THEN [RequestID |-> requestID, Code |-> 200, WorkOrder |-> statusStore[requestID]]
    ELSE [RequestID |-> requestID, Code |-> 404, WorkOrder |-> Document(NoWo)]

\* The request IDs clients ask for: those the responses carried, and another one
QueryIDs == {calls[i].resp.RequestID : i \in DOMAIN calls} \cup {DoesNotExist}

\* Mutant of StatusQuery: the entry is removed once it has been served.
StatusQueryConsumes ==
    \E requestID \in QueryIDs :
        /\ reply' = handleStatus(requestID)
        /\ statusStore' = [r \in DOMAIN statusStore \ {requestID} |-> statusStore[r]]
        /\ UNCHANGED <<now, calls, queue, pc, msg, wo, coll, log, acked>>
        /\ UNCHANGED <<rejected, ctxDone, statusLock, handlers>>
        /\ UNCHANGED classifyVars

\* A client asks for the status of a request ID it was given, or of another one.
StatusQuery ==
    \E requestID \in QueryIDs :
        /\ reply' = handleStatus(requestID)
        /\ UNCHANGED <<now, calls, queue, pc, msg, wo, coll, statusStore, log, acked>>
        /\ UNCHANGED <<rejected, ctxDone, statusLock, handlers>>
        /\ UNCHANGED classifyVars

Next ==
    \/ Submit
    \/ SendOK
    \/ SendFails
    \/ ReceiveInvalid
    \/ Receive
    \/ InsertFails
    \/ InsertOK
    \/ Project
    \/ Complete

\* The pipeline: the chat service, its send goroutines and the consumer loop.
\* (handleStatus only reads statusStore, so its clients are left to SpecStatus.)
Spec == Init /\ [][Next]_vars

\* The pipeline together with the clients of the status endpoint
NextStatus ==
    \/ Next
    \/ StatusQuery

SpecStatus == Init /\ [][NextStatus]_vars

\* The work-order service as it starts while the chat service has answered
\* one request of each guest and both envelopes wait on the queue.
sentCall(req, t, rnd, department) ==
    [req |-> req,
     resp |-> [RequestID |-> newRequestID(t, rnd), Status |-> "received",
               Department |-> department],
     send |-> "sent"]

InitConsumer ==
    /\ now = 1
    /\ \E r1, r2 \in ChatRequests, rnd \in RandomDraws :
           \E d1 \in routeOutcomes[r1], d2 \in routeOutcomes[r2] :
               /\ r1.GuestID = GuestG1
               /\ r2.GuestID = GuestG2
               /\ calls = <<sentCall(r1, 1, 0, d1), sentCall(r2, 1, rnd, d2)>>
    /\ queue = <<Message(1, calls[1].req, calls[1].resp),
                 Message(2, calls[2].req, calls[2].resp)>>
    /\ pc = "receive"
    /\ msg = NoMsg
    /\ wo = NoWo
    /\ coll = <<>>
    /\ statusStore = [r \in {} |-> Document(NoWo)]
    /\ log = <<>>
    /\ acked = <<>>
    /\ reply = NoReply
    /\ rejected = {}
    /\ ctxDone = FALSE
    /\ statusLock = Unlocked
    /\ handlers = [h \in Handlers |-> Idle]
    /\ cText = <<>>
    /\ cCalls = <<>>

\* The consumer on a queue that redelivers a message whose lock expired
NextRedelivery ==
    \/ ReceiveInvalid
    \/ Receive
    \/ InsertFails
    \/ InsertOK
    \/ Project
    \/ Complete
    \/ LockExpires

SpecRedelivery == InitConsumer /\ [][NextRedelivery]_vars

\* The steps of the goroutine that runs workOrderConsumer which do not wait
\* for the queue to hand out a message
Running ==
    \/ ReceiveCancelled
    \/ Continue
    \/ InsertFails
    \/ InsertOK
    \/ Project
    \/ Complete

\* The consumer and a caller that may cancel its ctx. The goroutine of the
\* consumer keeps being scheduled: a step of it that need not wait for a
\* message is eventually taken.
NextShutdown ==
    \/ ReceiveInvalid
    \/ Receive
    \/ Running
    \/ Cancel

SpecShutdown == InitConsumer /\ [][NextShutdown]_vars /\ WF_vars(Running)

\* ---------------------------------------------------------------- statusLock
\* The projection of workOrderConsumer and handleStatus statement by
\* statement, for the interleavings of the consumer with the goroutines that
\* serve status requests.

\* Mutant of ProjectLock: the writer takes the lock without waiting for the
\* readers to leave.
ProjectLockAmongReaders ==
    /\ pc = "project"
    /\ ~statusLock.writer
    /\ statusLock' = [statusLock EXCEPT !.writer = TRUE]
    /\ pc' = "write"
    /\ UNCHANGED <<now, calls, queue, msg, wo, coll, statusStore, log, acked, reply>>
    /\ UNCHANGED <<rejected, ctxDone, handlers>>
    /\ UNCHANGED classifyVars

\* statusLock.Lock(): waits until no writer and no reader holds the lock
ProjectLock ==
    /\ pc = "project"
    /\ ~statusLock.writer
    /\ statusLock.readers = 0
    /\ statusLock' = [statusLock EXCEPT !.writer = TRUE]
    /\ pc' = "write"
    /\ UNCHANGED <<now, calls, queue, msg, wo, coll, statusStore, log, acked, reply>>
    /\ UNCHANGED <<rejected, ctxDone, handlers>>
    /\ UNCHANGED classifyVars

\* statusStore[payload.RequestID] = &wo; wo is the variable of this iteration
\* of the loop, which no later statement assigns.
ProjectWrite ==
    /\ pc = "write"
    /\ statusStore' = [r \in DOMAIN statusStore \cup {wo.RequestID} |->
                          IF r = wo.RequestID THEN Document(wo) ELSE statusStore[r]]
    /\ pc' = "unlock"
    /\ UNCHANGED <<now, calls, queue, msg, wo, coll, log, acked, reply>>
    /\ UNCHANGED <<rejected, ctxDone, statusLock, handlers>>
    /\ UNCHANGED classifyVars

\* statusLock.Unlock()
ProjectUnlock ==
    /\ pc = "unlock"
    /\ statusLock' = [statusLock EXCEPT !.writer = FALSE]
    /\ pc' = "complete"
    /\ UNCHANGED <<now, calls, queue, msg, wo, coll, statusStore, log, acked, reply>>
    /\ UNCHANGED <<rejected, ctxDone, handlers>>
    /\ UNCHANGED classifyVars

\* handleStatus on goroutine h: the request ID is cut from the path and
\* statusLock.RLock() is taken, which waits while a writer holds the lock.
StatusRLock(h) ==
    /\ handlers[h].pc = "idle"
    /\ ~statusLock.writer
    /\ \E requestID \in QueryIDs :
           handlers' = [handlers EXCEPT ![h].pc = "lookup", ![h].requestID = requestID]
    /\ statusLock' = [statusLock EXCEPT !.readers = @ + 1]
    /\ UNCHANGED <<now, calls, queue, pc, msg, wo, coll, statusStore, log, acked, reply>>
    /\ UNCHANGED <<rejected, ctxDone>>
    /\ UNCHANGED classifyVars

\* resp, ok := statusStore[requestID]
StatusLookup(h) ==
    /\ handlers[h].pc = "lookup"
    /\ handlers' = [handlers EXCEPT
                       ![h].pc = "runlock",
                       ![h].ok = handlers[h].requestID \in DOMAIN statusStore,
                       ![h].resp = IF handlers[h].requestID \in DOMAIN statusStore
                                   THEN statusStore[handlers[h].requestID]
                                   ELSE Document(NoWo)]
    /\ UNCHANGED <<now, calls, queue, pc, msg, wo, coll, statusStore, log, acked, reply>>
    /\ UNCHANGED <<rejected, ctxDone, statusLock>>
    /\ UNCHANGED classifyVars

\* statusLock.RUnlock()
StatusRUnlock(h) ==
    /\ handlers[h].pc = "runlock"
    /\ handlers' = [handlers EXCEPT ![h].pc = "respond"]
    /\ statusLock' = [statusLock EXCEPT !.readers = @ - 1]
    /\ UNCHANGED <<now, calls, queue, pc, msg, wo, coll, statusStore, log, acked, reply>>
    /\ UNCHANGED <<rejected, ctxDone>>
    /\ UNCHANGED classifyVars

\* if !ok { http.Error(w, "Not found", 404); return }; Encode(resp)
StatusRespond(h) ==
    /\ handlers[h].pc = "respond"
    /\ reply' = [RequestID |-> handlers[h].requestID,
                 Code |-> IF handlers[h].ok THEN 200 ELSE 404,
                 WorkOrder |-> handlers[h].resp]
    /\ handlers' = [handlers EXCEPT ![h] = Idle]
    /\ UNCHANGED <<now, calls, queue, pc, msg, wo, coll, statusStore, log, acked>>
    /\ UNCHANGED <<rejected, ctxDone, statusLock>>
    /\ UNCHANGED classifyVars

RLocks == \E h \in Handlers : StatusRLock(h)
Lookups == \E h \in Handlers : StatusLookup(h)
RUnlocks == \E h \in Handlers : StatusRUnlock(h)
Responds == \E h \in Handlers : StatusRespond(h)

\* The work-order service as it starts while the envelopes of two requests
\* wait on the queue (their request IDs equal or not).
InitLock ==
    /\ now = 1
    /\ \E rnd \in RandomDraws :
           \E d1 \in routeOutcomes[ChatRequest(GuestG1, TowelsText, <<>>)],
              d2 \in routeOutcomes[ChatRequest(GuestG2, BlahText, WifiVoice)] :
               calls = <<sentCall(ChatRequest(GuestG1, TowelsText, <<>>), 1, 0, d1),
                         sentCall(ChatRequest(GuestG2, BlahText, WifiVoice), 1, rnd, d2)>>
    /\ queue = <<Message(1, calls[1].req, calls[1].resp),
                 Message(2, calls[2].req, calls[2].resp)>>
    /\ pc = "receive"
    /\ msg = NoMsg
    /\ wo = NoWo
    /\ coll = <<>>
    /\ statusStore = [r \in {} |-> Document(NoWo)]
    /\ log = <<>>
    /\ acked = <<>>
    /\ reply = NoReply
    /\ rejected = {}
    /\ ctxDone = FALSE
    /\ statusLock = Unlocked
    /\ handlers = [h \in Handlers |-> Idle]
    /\ cText = <<>>
    /\ cCalls = <<>>

NextLock ==
    \/ Receive
    \/ InsertFails
    \/ InsertOK
    \/ ProjectLock
    \/ ProjectWrite
    \/ ProjectUnlock
    \/ Complete
    \/ RLocks
    \/ Lookups
    \/ RUnlocks
    \/ Responds

SpecLock == InitLock /\ [][NextLock]_vars

\* The chat service alone, serving raw request bodies
NextIntake ==
    \/ Post
    \/ SendOK
    \/ SendFails

SpecIntake == Init /\ [][NextIntake]_vars

\* ---------------------------------------------------------------- classifier harness
\* Texts of up to MaxWords words, joined by single spaces
ClassifyWords ==
    {towel, <<"T", "O", "W", "E", "L", "S">>, clean, food, order, checkout, wifi,
     <<"b", "l", "a", "h">>}

RECURSIVE TextsOfWords(_)
TextsOfWords(n) ==
    IF n = 1 THEN ClassifyWords
    ELSE TextsOfWords(n - 1)
         \cup {t \o <<" ">> \o w : t \in TextsOfWords(n - 1), w \in ClassifyWords}

ClassifyTexts == TextsOfWords(MaxWords)

InitClassify ==
    /\ now = 1
    /\ calls = <<>>
    /\ queue = <<>>
    /\ pc = "receive"
    /\ msg = NoMsg
    /\ wo = NoWo
    /\ coll = <<>>
    /\ statusStore = [r \in {} |-> Document(NoWo)]
    /\ log = <<>>
    /\ acked = <<>>
    /\ reply = NoReply
    /\ rejected = {}
    /\ ctxDone = FALSE
    /\ statusLock = Unlocked
    /\ handlers = [h \in Handlers |-> Idle]
    /\ cText \in ClassifyTexts
    /\ cCalls = <<>>

\* One more call routeDepartment(cText), its range loop taking the order o
Classify ==
    \E o \in MapOrders :
        /\ Len(cCalls) < MaxClassifyCalls
        /\ cCalls' = Append(cCalls, routeDepartment(o, cText))
        /\ UNCHANGED cText
        /\ UNCHANGED pipeVars

SpecClassify == InitClassify /\ [][Classify]_vars

\* ---------------------------------------------------------------- properties
Range(q) == {q[k] : k \in DOMAIN q}

\* The calls whose message produced the log line
LoggedFrom(line) == {log[k].from : k \in {j \in DOMAIN log : log[j].line = line}}

\* The calls whose message is on the queue
Queued == {queue[k].from : k \in DOMAIN queue}

\* What the consumer decodes from the message of call i
Decoded(i) == Unmarshal(Message(i, calls[i].req, calls[i].resp).Body)

\* How many messages of call i exist: queued, held by the consumer or completed
Messages(i) ==
    Cardinality({k \in DOMAIN queue : queue[k].from = i})
    + (IF msg.from = i THEN 1 ELSE 0)
    + Cardinality({k \in DOMAIN acked : acked[k] = i})

\* C1: a message whose store insert failed is not acknowledged: it is never
\* passed to CompleteMessage (so that the queue redelivers it).
C1_InsertFailureNotAcked ==
    \A i \in LoggedFrom("MongoDB insert error") : i \notin Range(acked)

\* C2: a message whose body does not parse as JSON is acknowledged once it is
\* received, is not held or requeued, gives rise to no insert attempt, no
\* document of the store and no entry of statusStore (every document and every
\* entry comes from a message that parsed), and the loop goes on: the consumer
\* never leaves its loop and is at its receive step, holding no message,
\* whenever it is between two iterations.
C2_MalformedDropped ==
    /\ \A i \in LoggedFrom("Invalid message body") :
           /\ i \in Range(acked)
           /\ i \notin Queued
           /\ msg.from # i
    /\ \A i \in DOMAIN calls :
           (calls[i].send = "sent" /\ i \notin Queued /\ Decoded(i).err)
               => /\ i \in LoggedFrom("Invalid message body")
                  /\ i \notin LoggedFrom("Work order created")
                  /\ i \notin LoggedFrom("MongoDB insert error")
    /\ Len(coll) = Cardinality({k \in DOMAIN log : log[k].line = "Work order created"})
    /\ \A r \in DOMAIN statusStore :
           \E i \in LoggedFrom("Work order created") :
               ~Decoded(i).err /\ Decoded(i).payload.RequestID = r
    /\ pc \in {"receive", "insert", "project", "complete"}
    /\ pc = "receive" => msg = NoMsg

\* C2 witness: a malformed message was completed and a later, well-formed
\* message was stored and projected.
C2_Witness ==
    \E a, b \in DOMAIN acked :
        /\ a < b
        /\ Decoded(acked[a]).err
        /\ acked[a] \in LoggedFrom("Invalid message body")
        /\ acked[b] \in LoggedFrom("Work order created")
        /\ Len(coll) = 1
        /\ DOMAIN statusStore = {calls[acked[b]].resp.RequestID}

\* C3: once the consumer has processed the message of a call, its insert having
\* succeeded, and nothing has been processed since, the status query for the
\* request ID of the response returns a WorkOrder with the department of the
\* response and status Pending.
C3_StatusMatchesResponse ==
    \A i \in DOMAIN calls :
        (/\ acked # <<>>
         /\ acked[Len(acked)] = i
         /\ pc = "receive"
         /\ i \in LoggedFrom("Work order created"))
            => LET r == handleStatus(calls[i].resp.RequestID)
               IN  /\ r.Code = 200
                   /\ r.WorkOrder.Department = calls[i].resp.Department
                   /\ r.WorkOrder.Status = "Pending"

\* C4: every envelope the consumer receives decodes, and to the request ID,
\* guest ID, department and text the chat service put into it.
C4_RoundTrip ==
    /\ LoggedFrom("Invalid message body") = {}
    /\ msg.from # 0 =>
           /\ wo.RequestID = calls[msg.from].resp.RequestID
           /\ wo.GuestID = calls[msg.from].req.GuestID
           /\ wo.Department = calls[msg.from].resp.Department
           /\ wo.Request = calls[msg.from].req.Text

\* C5: every call on a text that contains "towel" in any letter case returns
\* Housekeeping, and every call on a text with no keyword returns General.
C5_TowelIsHousekeeping ==
    \A k \in DOMAIN cCalls :
        /\ Contains(ToLower(cText), towel) => cCalls[k] = Housekeeping
        /\ (\A w \in Keywords : ~Contains(ToLower(cText), w)) => cCalls[k] = General

\* C6: two calls on the same text return the same department.
C6_Deterministic ==
    \A j, k \in DOMAIN cCalls : cCalls[j] = cCalls[k]

\* C7: the department of every response, of every document of the store and
\* of every entry of statusStore is one of the five departments.
C7_DepartmentEnumerated ==
    /\ \A i \in DOMAIN calls : calls[i].resp.Department \in Departments
    /\ \A k \in DOMAIN coll : coll[k].Department \in Departments
    /\ \A r \in DOMAIN statusStore : statusStore[r].Department \in Departments

\* C8: the request IDs of two calls differ.
C8_RequestIDsDistinct ==
    \A i, j \in DOMAIN calls :
        i # j => calls[i].resp.RequestID # calls[j].resp.RequestID

\* C9: no step changes the request or the response of a call (whatever becomes
\* of its send), and a send that failed stays failed: it is not retried and its
\* message never reaches the queue.
C9_ResponseUnaffectedBySend ==
    [][\A i \in DOMAIN calls :
           /\ calls'[i].req = calls[i].req
           /\ calls'[i].resp = calls[i].resp
           /\ calls[i].resp.Status = "received"
           /\ calls[i].send = "failed" =>
                  /\ calls'[i].send = "failed"
                  /\ Messages(i) = 0
                  /\ Messages(i)' = 0]_vars

\* C9 witness: two calls got their responses, the send of one failed and the
\* send of the other succeeded.
C9_Witness ==
    \E i, j \in DOMAIN calls :
        /\ calls[i].send = "failed"
        /\ calls[j].send = "sent"
        /\ calls[i].resp.Status = "received"
        /\ calls[j].resp.Status = "received"
        /\ Messages(i) = 0

\* C10: every accepted call starts one send and no more: while it runs no
\* message of the call exists, after it succeeded exactly one, after it failed
\* none; and the body of that message is the envelope formatted from the
\* request ID and department of the response.
C10_OnePublishPerCall ==
    \A i \in DOMAIN calls :
        /\ calls[i].send \in {"started", "sent", "failed"}
        /\ Messages(i) = (IF calls[i].send = "sent" THEN 1 ELSE 0)
        /\ \A m \in Range(queue) \cup {msg} :
               m.from = i =>
                   m.Body = envelopeBody(calls[i].resp.RequestID, calls[i].req.GuestID,
                                         calls[i].resp.Department, calls[i].req.Text)

\* C10 witness: the message of a call is on the queue, carrying the request ID
\* and department of the response.
C10_Witness ==
    \E i \in DOMAIN calls :
        /\ calls[i].send = "sent"
        /\ Messages(i) = 1
        /\ i \in Queued
        /\ ~Decoded(i).err
        /\ Decoded(i).payload.RequestID = calls[i].resp.RequestID
        /\ Decoded(i).payload.Department = calls[i].resp.Department

\* The bodies that are not one JSON value, or that are an object with a key
\* naming no field of ChatRequest
malformed(v) ==
    \/ ~v.ok
    \/ \E i \in DOMAIN v.members : chatFieldOf(v.members[i].key) = {}

BadBodies == {b \in PostBodies : malformed(ParseJSON(b))}

\* C11: a POST whose body is bad JSON or has an unknown field is answered with
\* 400, queues nothing and starts no call (no request ID, no envelope, no send).
C11_MalformedRejected ==
    [][\A b \in BadBodies :
           serveChatRequest(b) =>
               /\ b \in rejected'
               /\ calls' = calls
               /\ queue' = queue]_vars

\* C12: a status query for a request ID that has no entry in statusStore is
\* answered 404 with no WorkOrder, in whatever state it is served, and every
\* answer is a 200 or a 404.
C12_MissIsNotFound ==
    [][reply' # reply =>
           /\ reply'.Code \in {200, 404}
           /\ reply'.RequestID \notin DOMAIN statusStore =>
                  /\ reply'.Code = 404
                  /\ reply'.WorkOrder = Document(NoWo)]_vars

\* C12 witness: the request ID of a response was asked for while its message
\* was still waiting on the queue, and the answer was 404.
C12_Witness ==
    \E i \in DOMAIN calls :
        /\ i \in Queued
        /\ reply.RequestID = calls[i].resp.RequestID
        /\ reply.RequestID \notin DOMAIN statusStore
        /\ reply.Code = 404

\* C13: a status query changes nothing but the answer it writes (statusStore,
\* the store and the queue are left alone), and a query for the request ID of
\* the previous query gives another answer only if the entry of that ID is no
\* longer what the previous answer showed (the consumer wrote in between).
C13_StatusQueryIdempotent ==
    [][reply' # reply =>
           /\ UNCHANGED <<statusStore, coll, queue, acked, log, calls>>
           /\ reply'.RequestID = reply.RequestID =>
                  reply # handleStatus(reply.RequestID)]_vars

\* C13 witness: a query found an entry, and nothing was written since: a
\* second query for the same ID returns the same answer.
C13_Witness ==
    /\ reply.Code = 200
    /\ reply.RequestID \in DOMAIN statusStore
    /\ reply = handleStatus(reply.RequestID)

\* C14: a message is passed to CompleteMessage only after it was dropped as
\* malformed or after its insert was attempted: every acknowledged message
\* that does not decode has its "Invalid message body" line, every acknowledged
\* message that decodes has the line of its insert (created or error), and
\* the message held while the insert is still to come is not acknowledged.
C14_AckAfterInsertAttempt ==
    /\ \A k \in DOMAIN acked :
           IF Decoded(acked[k]).err
           THEN acked[k] \in LoggedFrom("Invalid message body")
           ELSE acked[k] \in LoggedFrom("Work order created")
                              \cup LoggedFrom("MongoDB insert error")
    /\ pc = "insert" => msg.from \notin Range(acked)

\* C14 witness: two well-formed messages were acknowledged, one after its
\* insert succeeded and one after its insert failed.
C14_Witness ==
    \E a, b \in DOMAIN acked :
        /\ ~Decoded(acked[a]).err
        /\ ~Decoded(acked[b]).err
        /\ acked[a] \in LoggedFrom("Work order created")
        /\ acked[b] \in LoggedFrom("MongoDB insert error")

\* The lines "Work order created" written for the message of call i
Created(i) == {k \in DOMAIN log : log[k].from = i /\ log[k].line = "Work order created"}

\* C15: statusStore is written only after a successful insert. After every
\* step, each entry is a document of the store, keyed by the request ID of an
\* envelope whose insert succeeded, and there are no more entries than such
\* envelopes, however often they were delivered; and a step that changes
\* statusStore is the projection step that follows the successful insert of
\* the message held (so a failed insert changes nothing).
C15_ProjectedOnlyAfterInsert ==
    [][/\ \A r \in DOMAIN statusStore' :
              \E k \in DOMAIN coll' : coll'[k] = statusStore'[r]
       /\ Cardinality(DOMAIN statusStore') <= Cardinality(LoggedFrom("Work order created")')
       /\ statusStore' # statusStore =>
              /\ pc = "project"
              /\ log' = log
              /\ log[Len(log)] = [line |-> "Work order created", from |-> msg.from]
              /\ \A r \in DOMAIN statusStore' :
                     (r \notin DOMAIN statusStore \/ statusStore'[r] # statusStore[r])
                         => /\ r = wo.RequestID
                            /\ statusStore'[r] = coll[Len(coll)]]_vars

\* C15 witness: one envelope was delivered twice and inserted twice, its first
\* delivery having lost the lock; the store holds two documents and
\* statusStore one entry.
C15_Witness ==
    \E i \in DOMAIN calls :
        /\ Cardinality(Created(i)) = 2
        /\ Len(coll) = 2
        /\ DOMAIN statusStore = {calls[i].resp.RequestID}
        /\ pc = "receive"

\* C16: no step removes an entry of statusStore, and a step that changes the
\* entry of a request ID is the projection step of the WorkOrder being
\* processed, which carries that request ID and becomes the new entry.
C16_EntriesPersist ==
    [][\A r \in DOMAIN statusStore :
           /\ r \in DOMAIN statusStore'
           /\ statusStore'[r] # statusStore[r] =>
                  /\ pc = "project"
                  /\ wo.RequestID = r
                  /\ statusStore'[r] = Document(wo)]_vars

\* C16 witness: the entry of a request ID was replaced by the snapshot of a
\* WorkOrder processed later, and is still there after the iteration.
C16_Witness ==
    \E r \in DOMAIN statusStore :
        /\ Len(coll) = 2
        /\ coll[1] # coll[2]
        /\ statusStore[r] = coll[2]
        /\ DOMAIN statusStore = {r}
        /\ pc = "receive"

\* The positions of the for loop of workOrderConsumer
LoopPositions == {"receive", "receiveError", "insert", "project", "complete"}

\* C17: once ctx is cancelled the consumer eventually leaves its loop.
C17_ShutdownTerminates == ctxDone ~> (pc \notin LoopPositions)

\* The goroutines between statusLock.RLock() and statusLock.RUnlock()
Readers == {h \in Handlers : handlers[h].pc \in {"lookup", "runlock"}}

\* A snapshot with every field of a WorkOrder set as the consumer sets them
Constructed(d) ==
    /\ d.Status = "Pending"
    /\ d.Created \in 1..MaxTime
    /\ d.Updated \in d.Created..MaxTime
    /\ \E i \in DOMAIN calls :
           /\ d.GuestID = calls[i].req.GuestID
           /\ d.Department = calls[i].resp.Department

\* C18: readers and the writer never expose a partial record. After every
\* step the writer holds statusLock exactly while it is between Lock and
\* Unlock, the readers counted are exactly the goroutines between RLock and
\* RUnlock, and the writer never holds it together with a reader; every entry
\* of statusStore and every record in a 200 response is fully constructed and
\* is a document of the store. A step that changes statusStore is made with
\* the write lock held and no reader inside, and stores the snapshot of the
\* WorkOrder built and inserted in this iteration; a lookup is made with the
\* read lock held and no writer inside; the WorkOrder stored is not assigned
\* again while the iteration lasts; and the record a goroutine looked up is
\* the one it answers with.
C18_NoPartialRecord ==
    [][/\ statusLock'.writer = (pc' \in {"write", "unlock"})
       /\ statusLock'.readers = Cardinality(Readers')
       /\ ~(statusLock'.writer /\ statusLock'.readers > 0)
       /\ \A r \in DOMAIN statusStore' :
              /\ Constructed(statusStore'[r])
              /\ \E k \in DOMAIN coll' : coll'[k] = statusStore'[r]
       /\ reply'.Code = 200 =>
              /\ Constructed(reply'.WorkOrder)
              /\ \E k \in DOMAIN coll' : coll'[k] = reply'.WorkOrder
       /\ statusStore' # statusStore =>
              /\ statusLock.writer
              /\ statusLock.readers = 0
              /\ Readers = {}
              /\ wo' = wo
              /\ statusStore'[wo.RequestID] = Document(wo)
              /\ coll[Len(coll)] = Document(wo)
              /\ \A r \in DOMAIN statusStore :
                     r # wo.RequestID => statusStore'[r] = statusStore[r]
       /\ \A h \in Handlers :
              /\ (handlers[h].pc = "lookup" /\ handlers'[h].pc = "runlock") =>
                     /\ statusLock.readers > 0
                     /\ ~statusLock.writer
                     /\ statusStore' = statusStore
                     /\ handlers'[h].ok = (handlers[h].requestID \in DOMAIN statusStore)
                     /\ handlers'[h].ok =>
                            handlers'[h].resp = statusStore[handlers[h].requestID]
              /\ (handlers[h].pc = "runlock" /\ handlers'[h].pc = "respond") =>
                     /\ handlers'[h].ok = handlers[h].ok
                     /\ handlers'[h].resp = handlers[h].resp
              /\ (handlers[h].pc = "respond" /\ handlers'[h].pc = "idle") =>
                     /\ reply'.Code = (IF handlers[h].ok THEN 200 ELSE 404)
                     /\ handlers[h].ok => reply'.WorkOrder = handlers[h].resp
       /\ (pc \in {"unlock", "complete"} /\ pc' # "receive") => wo' = wo]_vars

\* C18 witness: two goroutines share the read lock, one of them holding the
\* record it looked up, while the consumer waits in Lock() to replace that
\* record with the snapshot of a later WorkOrder of the same request ID.
C18_Witness ==
    /\ pc = "project"
    /\ statusLock.readers >= 2
    /\ ~statusLock.writer
    /\ wo.RequestID \in DOMAIN statusStore
    /\ statusStore[wo.RequestID] # Document(wo)
    /\ \E h \in Handlers :
           /\ handlers[h].pc = "runlock"
           /\ handlers[h].ok
           /\ handlers[h].requestID = wo.RequestID
           /\ handlers[h].resp = statusStore[wo.RequestID]

\* C19: the voice transcript influences classification only. The department
\* of every response is a result of routeDepartment on the text followed by
\* the transcript, and the request the consumer decodes from the envelope of
\* a call, like the Request of every document of the store, is the text of
\* the call and nothing else.
C19_RequestIsOriginalText ==
    /\ \A i \in DOMAIN calls : calls[i].resp.Department \in routeOutcomes[calls[i].req]
    /\ (msg.from # 0 /\ wo # NoWo) => wo.Request = calls[msg.from].req.Text
    /\ \A k \in DOMAIN coll :
           \E i \in DOMAIN calls :
               /\ coll[k].GuestID = calls[i].req.GuestID
               /\ coll[k].Request = calls[i].req.Text

\* C20: every WorkOrder the consumer builds, every document of the store and
\* every entry of statusStore has status Pending and a Created time equal to
\* its Updated time.
C20_PendingAndSameInstant ==
    /\ wo # NoWo => (wo.Status = "Pending" /\ wo.Created = wo.Updated)
    /\ \A k \in DOMAIN coll :
           coll[k].Status = "Pending" /\ coll[k].Created = coll[k].Updated
    /\ \A r \in DOMAIN statusStore :
           statusStore[r].Status = "Pending" /\ statusStore[r].Created = statusStore[r].Updated

=============================================================================
